---- MODULE Spec2Model ----
(***************************************************************************)
(* The catalog data model of locallibrary/catalog/models.py: the five      *)
(* tables Language, Genre, Author, Book and BookInstance, the Book-Genre   *)
(* association table, the create / update / delete operations the ORM      *)
(* performs on them as the field declarations direct (defaults, choices,   *)
(* blank, null, on_delete), and the formatting helpers __str__ and         *)
(* display_genre.                                                          *)
(*                                                                         *)
(* Conventions.  A nullable field holds a set: {} is None / NULL and {v}   *)
(* is the value v.  An argument the caller does not pass is {} as well.    *)
(* Create and update go through model validation (full_clean, as the admin *)
(* forms do) before the row is written.  ret is the outcome of the last    *)
(* operation: the value returned or the exception raised.  next_id holds   *)
(* the id the store gives the next row of each table with an automatic id. *)
(* created counts the rows inserted so far, and issued is the set of       *)
(* BookInstance ids ever stored: history the program does not keep.        *)
(***************************************************************************)
EXTENDS Naturals, Sequences, FiniteSets, TLC

VARIABLES language, genre, author, book, book_genre, book_instance,
          next_id, created, issued, ret

vars == <<language, genre, author, book, book_genre, book_instance,
          next_id, created, issued, ret>>

catalog == <<language, genre, author, book, book_genre, book_instance, next_id, created>>

(***************************************************************************)
(* Bounds of the model.                                                    *)
(***************************************************************************)
\* rows created, over all the tables
MaxCreates == 3
\* outcomes of os.urandom(16) that uuid4 may draw
NumUuids == 2
\* the catalogs display_genre and the default listing are applied to
MaxDisplayGenres == 4
MaxListRows == 3
MaxListDate == 2

NULL == {}
Some(v) == {v}
Value(opt) == CHOOSE v \in opt : TRUE

LanguageNames == {"English"}
GenreNames == {"Poetry"}
FirstNames == {"Jane"}
LastNames == {"Austen"}
Titles == {"Emma"}
Summaries == {"A novel"}
Isbns == {"9780141439587"}
Imprints == {"Penguin 2003"}
\* due dates, as day numbers
DueDates == {1}

(***************************************************************************)
(* BookInstance.LOAN_STATUS and the status field.  The labels, which no     *)
(* operation reads, are given in English.                                  *)
(***************************************************************************)
LOAN_STATUS == <<
    <<"m", "Maintenance">>,
    <<"o", "On loan">>,
    <<"a", "Available">>,
    <<"r", "Reserved">> >>

StatusChoices == { LOAN_STATUS[k][1] : k \in 1 .. Len(LOAN_STATUS) }

StatusMaxLength == 1

\* StatusDefault with another code as the default
StatusDefaultAvailable == "a"

StatusDefault == "m"

\* Field.empty_values, for a CharField
EmptyValues == {""}

\* the values a caller may pass for status: the codes, the empty string, a
\* character that is no code
StatusInputs == StatusChoices \cup {"", "x"}

\* StatusValid without the choices: any string that fits the column
StatusValidAnyChar(s) == Len(s) <= StatusMaxLength

\* CharField(max_length=1, choices=LOAN_STATUS, blank=True).clean(value):
\* a value that is not empty must be one of the choices; an empty value is
\* refused only when blank is False; MaxLengthValidator runs on the rest.
StatusValid(s) ==
    /\ s \notin EmptyValues => s \in StatusChoices
    /\ s \notin EmptyValues => Len(s) <= StatusMaxLength

(***************************************************************************)
(* Outcomes.                                                               *)
(***************************************************************************)
\* a write that succeeded returns nothing
Done == [op |-> "write", arg |-> NULL, kind |-> "ok", val |-> "", rows |-> <<>>]
Raised(op, arg, exc) == [op |-> op, arg |-> arg, kind |-> exc, val |-> "", rows |-> <<>>]
\* instance.delete() reports the object it deleted
Deleted(op, id) == [op |-> op, arg |-> {id}, kind |-> "ok", val |-> "", rows |-> <<>>]
Returned(op, arg, v, rows) == [op |-> op, arg |-> arg, kind |-> "ok", val |-> v, rows |-> rows]

Insert(table, id, row) == table @@ (id :> row)
Remove(table, id) == [k \in DOMAIN table \ {id} |-> table[k]]

\* ForeignKey.validate: a reference that is not None names an existing row
RefValid(opt, table) == opt \subseteq DOMAIN table

Init ==
    /\ language = << >>
    /\ genre = << >>
    /\ author = << >>
    /\ book = << >>
    /\ book_genre = {}
    /\ book_instance = {}
    /\ next_id = [t \in {"language", "genre", "author", "book"} |-> 1]
    /\ created = 0
    /\ issued = {}
    /\ ret = Done

(***************************************************************************)
(* Language                                                                *)
(***************************************************************************)
CreateLanguage(name) ==
    /\ created < MaxCreates
    /\ language' = Insert(language, next_id["language"], [name |-> name])
    /\ next_id' = [next_id EXCEPT !["language"] = @ + 1]
    /\ created' = created + 1
    /\ ret' = Done
    /\ UNCHANGED <<genre, author, book, book_genre, book_instance, issued>>

\* Book.language: on_delete=SET_NULL
DeleteLanguage(id) ==
    /\ id \in DOMAIN language
    /\ language' = Remove(language, id)
    /\ book' = [b \in DOMAIN book |->
                  IF book[b].language = Some(id)
                  THEN [book[b] EXCEPT !.language = NULL] ELSE book[b]]
    /\ ret' = Deleted("delete_language", id)
    /\ UNCHANGED <<genre, author, book_genre, book_instance, next_id, created, issued>>

(***************************************************************************)
(* Genre                                                                   *)
(***************************************************************************)
CreateGenre(name) ==
    /\ created < MaxCreates
    /\ genre' = Insert(genre, next_id["genre"], [name |-> name])
    /\ next_id' = [next_id EXCEPT !["genre"] = @ + 1]
    /\ created' = created + 1
    /\ ret' = Done
    /\ UNCHANGED <<language, author, book, book_genre, book_instance, issued>>

\* DeleteGenre leaving the rows of the association table behind
DeleteGenreKeepLinks(id) ==
    /\ id \in DOMAIN genre
    /\ genre' = Remove(genre, id)
    /\ ret' = Deleted("delete_genre", id)
    /\ UNCHANGED <<language, author, book, book_genre, book_instance, next_id, created, issued>>

\* Book.genre: the rows of the association table go with the Genre
DeleteGenre(id) ==
    /\ id \in DOMAIN genre
    /\ genre' = Remove(genre, id)
    /\ book_genre' = { p \in book_genre : p[2] # id }
    /\ ret' = Deleted("delete_genre", id)
    /\ UNCHANGED <<language, author, book, book_instance, next_id, created, issued>>

(***************************************************************************)
(* Author                                                                  *)
(***************************************************************************)
CreateAuthor(first_name, last_name) ==
    /\ created < MaxCreates
    /\ author' = Insert(author, next_id["author"],
                        [first_name |-> first_name, last_name |-> last_name,
                         date_of_birth |-> NULL, date_of_death |-> NULL])
    /\ next_id' = [next_id EXCEPT !["author"] = @ + 1]
    /\ created' = created + 1
    /\ ret' = Done
    /\ UNCHANGED <<language, genre, book, book_genre, book_instance, issued>>

\* DeleteAuthor with on_delete=CASCADE: the author's books go too
DeleteAuthorCascade(id) ==
    /\ id \in DOMAIN author
    /\ author' = Remove(author, id)
    /\ book' = [b \in { x \in DOMAIN book : book[x].author # Some(id) } |-> book[b]]
    /\ ret' = Deleted("delete_author", id)
    /\ UNCHANGED <<language, genre, book_genre, book_instance, next_id, created, issued>>

\* Book.author: on_delete=SET_NULL
DeleteAuthor(id) ==
    /\ id \in DOMAIN author
    /\ author' = Remove(author, id)
    /\ book' = [b \in DOMAIN book |->
                  IF book[b].author = Some(id)
                  THEN [book[b] EXCEPT !.author = NULL] ELSE book[b]]
    /\ ret' = Deleted("delete_author", id)
    /\ UNCHANGED <<language, genre, book_genre, book_instance, next_id, created, issued>>

(***************************************************************************)
(* Book                                                                    *)
(***************************************************************************)
\* the references a caller may pass for a foreign key to the table `rows`
\* whose next id is `next`: None, the id of a row, an id that has no row
RefInputs(rows, next) == {NULL} \cup {Some(i) : i \in DOMAIN rows \cup {next}}

BookInputs ==
    [title : Titles, summary : Summaries, isbn : Isbns,
     author : RefInputs(author, next_id["author"]),
     language : RefInputs(language, next_id["language"])]

BookValid(row) ==
    /\ RefValid(row.author, author)
    /\ RefValid(row.language, language)

CreateBook(row) ==
    /\ created < MaxCreates
    /\ IF BookValid(row)
       THEN /\ book' = Insert(book, next_id["book"], row)
            /\ next_id' = [next_id EXCEPT !["book"] = @ + 1]
            /\ created' = created + 1
            /\ ret' = Done
       ELSE /\ ret' = Raised("write", NULL, "ValidationError")
            /\ UNCHANGED <<book, next_id, created>>
    /\ UNCHANGED <<language, genre, author, book_genre, book_instance, issued>>

UpdateBook(id, row) ==
    /\ id \in DOMAIN book
    /\ IF BookValid(row)
       THEN /\ book' = [book EXCEPT ![id] = row]
            /\ ret' = Done
       ELSE /\ ret' = Raised("write", NULL, "ValidationError")
            /\ UNCHANGED book
    /\ UNCHANGED <<language, genre, author, book_genre, book_instance, next_id, created, issued>>

\* book.genre.add(g)
AddGenre(id, g) ==
    /\ id \in DOMAIN book
    /\ g \in DOMAIN genre
    /\ book_genre' = book_genre \cup {<<id, g>>}
    /\ ret' = Done
    /\ UNCHANGED <<language, genre, author, book, book_instance, next_id, created, issued>>

\* book.genre.remove(g)
RemoveGenre(id, g) ==
    /\ id \in DOMAIN book
    /\ g \in DOMAIN genre
    /\ book_genre' = book_genre \ {<<id, g>>}
    /\ ret' = Done
    /\ UNCHANGED <<language, genre, author, book, book_instance, next_id, created, issued>>

\* DeleteBook with on_delete=CASCADE: the book's instances go too
DeleteBookCascade(id) ==
    /\ id \in DOMAIN book
    /\ book' = Remove(book, id)
    /\ book_instance' = { r \in book_instance : r.book # Some(id) }
    /\ book_genre' = { p \in book_genre : p[1] # id }
    /\ ret' = Deleted("delete_book", id)
    /\ UNCHANGED <<language, genre, author, next_id, created, issued>>

\* BookInstance.book: on_delete=SET_NULL; the rows of the association
\* table go with the Book
DeleteBook(id) ==
    /\ id \in DOMAIN book
    /\ book' = Remove(book, id)
    /\ book_instance' = { IF r.book = Some(id) THEN [r EXCEPT !.book = NULL] ELSE r
                          : r \in book_instance }
    /\ book_genre' = { p \in book_genre : p[1] # id }
    /\ ret' = Deleted("delete_book", id)
    /\ UNCHANGED <<language, genre, author, next_id, created, issued>>

(***************************************************************************)
(* BookInstance.id: UUIDField(primary_key=True, default=uuid.uuid4)        *)
(***************************************************************************)
\* the k-th outcome of os.urandom(16), as 16 bytes
Urandom(k) == [i \in 1 .. 16 |-> (k * 61 + i * 7) % 256]

\* uuid.uuid4(): 16 random bytes with the version (4) and variant (RFC 4122)
\* bits forced
Uuid4(k) ==
    [i \in 1 .. 16 |->
        IF i = 7 THEN (Urandom(k)[i] % 16) + 64
        ELSE IF i = 9 THEN (Urandom(k)[i] % 64) + 128
        ELSE Urandom(k)[i]]

HexDigits == <<"0", "1", "2", "3", "4", "5", "6", "7",
               "8", "9", "a", "b", "c", "d", "e", "f">>

HexByte(b) == HexDigits[(b \div 16) + 1] \o HexDigits[(b % 16) + 1]

RECURSIVE HexBytes(_, _, _)
HexBytes(u, from, to) ==
    IF from > to THEN "" ELSE HexByte(u[from]) \o HexBytes(u, from + 1, to)

\* str(uuid): 8-4-4-4-12 hexadecimal digits
UuidStr(u) ==
    HexBytes(u, 1, 4) \o "-" \o HexBytes(u, 5, 6) \o "-" \o HexBytes(u, 7, 8)
        \o "-" \o HexBytes(u, 9, 10) \o "-" \o HexBytes(u, 11, 16)

(***************************************************************************)
(* BookInstance                                                            *)
(***************************************************************************)
InstanceIds == { r.id : r \in book_instance }

InstanceRow(id) == CHOOSE r \in book_instance : r.id = id

\* what a caller may pass, with book among `books`, and status among
\* `statuses` or not given ({})
InstanceInputs(books, statuses) ==
    [book : books,
     imprint : Imprints,
     due_back : {NULL} \cup {Some(d) : d \in DueDates},
     status : {NULL} \cup {Some(s) : s \in statuses}]

\* the assignments an update may make: <<field, new value>>
InstanceAssignments(books, statuses) ==
    ({"book"} \X books)
        \cup ({"due_back"} \X ({NULL} \cup {Some(d) : d \in DueDates}))
        \cup ({"status"} \X statuses)

\* the field's value: the one given, else the field's default
StatusOf(args) == IF args.status = NULL THEN StatusDefault ELSE Value(args.status)

\* full_clean() of a row
InstanceValid(row) ==
    /\ RefValid(row.book, book)
    /\ StatusValid(row.status)

NewInstance(id, args) ==
    [id |-> id, book |-> args.book, imprint |-> args.imprint,
     due_back |-> args.due_back, status |-> StatusOf(args)]

\* CreateBookInstance with an id column that is no primary key: the INSERT
\* never fails
CreateBookInstanceNoPk(k, args) ==
    LET id == Uuid4(k) IN
    /\ created < MaxCreates
    /\ IF ~InstanceValid(NewInstance(id, args))
       THEN /\ ret' = Raised("write", NULL, "ValidationError")
            /\ UNCHANGED <<book_instance, issued, created>>
       ELSE /\ book_instance' = book_instance \cup {NewInstance(id, args)}
            /\ issued' = issued \cup {id}
            /\ created' = created + 1
            /\ ret' = Done
    /\ UNCHANGED <<language, genre, author, book, book_genre, next_id>>

\* BookInstance.objects.create(**args): the id is the default, uuid4(); the
\* INSERT fails on a primary key that a row already has
CreateBookInstance(k, args) ==
    LET id == Uuid4(k) IN
    /\ created < MaxCreates
    /\ IF ~InstanceValid(NewInstance(id, args))
       THEN /\ ret' = Raised("write", NULL, "ValidationError")
            /\ UNCHANGED <<book_instance, issued, created>>
       ELSE IF id \in InstanceIds
       THEN /\ ret' = Raised("write", NULL, "IntegrityError")
            /\ UNCHANGED <<book_instance, issued, created>>
       ELSE /\ book_instance' = book_instance \cup {NewInstance(id, args)}
            /\ issued' = issued \cup {id}
            /\ created' = created + 1
            /\ ret' = Done
    /\ UNCHANGED <<language, genre, author, book, book_genre, next_id>>

\* UpdateBookInstance with a transition rule: only an instance that has a
\* due date may be put on loan
UpdateBookInstanceGuarded(id, field, value) ==
    /\ id \in InstanceIds
    /\ LET new == [InstanceRow(id) EXCEPT ![field] = value] IN
       IF ~InstanceValid(new) \/ (new.status = "o" /\ new.due_back = NULL)
       THEN /\ ret' = Raised("write", NULL, "ValidationError")
            /\ UNCHANGED book_instance
       ELSE /\ book_instance' = { IF r.id = id THEN new ELSE r : r \in book_instance }
            /\ ret' = Done
    /\ UNCHANGED <<language, genre, author, book, book_genre, next_id, created, issued>>

\* an update: instance.<field> = value, then full_clean() and save()
UpdateBookInstance(id, field, value) ==
    /\ id \in InstanceIds
    /\ LET new == [InstanceRow(id) EXCEPT ![field] = value] IN
       IF ~InstanceValid(new)
       THEN /\ ret' = Raised("write", NULL, "ValidationError")
            /\ UNCHANGED book_instance
       ELSE /\ book_instance' = { IF r.id = id THEN new ELSE r : r \in book_instance }
            /\ ret' = Done
    /\ UNCHANGED <<language, genre, author, book, book_genre, next_id, created, issued>>

DeleteBookInstance(id) ==
    /\ id \in InstanceIds
    /\ book_instance' = { r \in book_instance : r.id # id }
    /\ ret' = Deleted("delete_instance", id)
    /\ UNCHANGED <<language, genre, author, book, book_genre, next_id, created, issued>>

\* '%s (%s)' % (a, b)
Format2(a, b) == a \o " (" \o b \o ")"

\* BookInstance.__str__: self.book is None when the reference is NULL, and
\* None has no attribute title
StrBookInstance(id) ==
    /\ id \in InstanceIds
    /\ LET r == InstanceRow(id) IN
       ret' = IF r.book = NULL
              THEN Raised("str", Some(id), "AttributeError")
              ELSE IF Value(r.book) \notin DOMAIN book
              THEN Raised("str", Some(id), "DoesNotExist")
              ELSE Returned("str", Some(id),
                            Format2(book[Value(r.book)].title, UuidStr(r.id)), <<>>)
    /\ UNCHANGED <<language, genre, author, book, book_genre, book_instance,
                   next_id, created, issued>>

(***************************************************************************)
(* Book.display_genre                                                      *)
(***************************************************************************)
\* the orders in which a query without ORDER BY may return the rows `set`
QueryOrders(set) ==
    { q \in [1 .. Cardinality(set) -> set] :
        \A i, j \in 1 .. Cardinality(set) : i # j => q[i] # q[j] }

\* seq[:n]
Slice(seq, n) == SubSeq(seq, 1, IF Len(seq) < n THEN Len(seq) ELSE n)

\* sep.join(strs)
RECURSIVE Join(_, _)
Join(sep, strs) ==
    IF Len(strs) = 0 THEN ""
    ELSE IF Len(strs) = 1 THEN strs[1]
    ELSE strs[1] \o sep \o Join(sep, Tail(strs))

BookGenres(id) == { p[2] : p \in { q \in book_genre : q[1] = id } }

\* DisplayGenre with the slice one short: [:2]
DisplayGenreFirstTwo(id, order) ==
    /\ id \in DOMAIN book
    /\ order \in QueryOrders(BookGenres(id))
    /\ LET first == Slice(order, 2)
           names == [i \in 1 .. Len(first) |-> genre[first[i]].name]
       IN ret' = Returned("display_genre", Some(id), Join(", ", names), order)
    /\ UNCHANGED <<language, genre, author, book, book_genre, book_instance,
                   next_id, created, issued>>

\* ', '.join([genre.name for genre in self.genre.all()[:3]]), the query
\* self.genre.all() returning the book's genres in the order `order`
DisplayGenre(id, order) ==
    /\ id \in DOMAIN book
    /\ order \in QueryOrders(BookGenres(id))
    /\ LET first == Slice(order, 3)
           names == [i \in 1 .. Len(first) |-> genre[first[i]].name]
       IN ret' = Returned("display_genre", Some(id), Join(", ", names), order)
    /\ UNCHANGED <<language, genre, author, book, book_genre, book_instance,
                   next_id, created, issued>>

(***************************************************************************)
(* BookInstance.Meta: ordering = ["due_back"]                              *)
(***************************************************************************)
\* Before with the ordering reversed: ordering = ["-due_back"]
BeforeDescending(a, b, nulls_first) ==
    IF a.due_back = NULL
    THEN nulls_first /\ b.due_back # NULL
    ELSE IF b.due_back = NULL
    THEN ~nulls_first
    ELSE Value(a.due_back) > Value(b.due_back)

\* ORDER BY due_back ASC: whether row a sorts strictly before row b.  NULL
\* sorts lowest on a store that orders NULL first (SQLite, MySQL) and
\* highest on one that orders it last (PostgreSQL, Oracle).
Before(a, b, nulls_first) ==
    IF a.due_back = NULL
    THEN nulls_first /\ b.due_back # NULL
    ELSE IF b.due_back = NULL
    THEN ~nulls_first
    ELSE Value(a.due_back) < Value(b.due_back)

\* r put into the sorted rows, after those it does not sort before
InsertRow(sorted, r, nulls_first) ==
    LET k == Cardinality({ i \in 1 .. Len(sorted) : ~Before(r, sorted[i], nulls_first) })
    IN SubSeq(sorted, 1, k) \o <<r>> \o SubSeq(sorted, k + 1, Len(sorted))

RECURSIVE SortRows(_, _)
SortRows(scan, nulls_first) ==
    IF Len(scan) = 0 THEN << >>
    ELSE InsertRow(SortRows(SubSeq(scan, 1, Len(scan) - 1), nulls_first),
                   scan[Len(scan)], nulls_first)

\* BookInstance.objects.all(), the table being scanned in the order `scan`
ListInstances(scan, nulls_first) ==
    /\ scan \in QueryOrders(book_instance)
    /\ ret' = Returned("list", Some(nulls_first), "", SortRows(scan, nulls_first))
    /\ UNCHANGED <<language, genre, author, book, book_genre, book_instance,
                   next_id, created, issued>>

(***************************************************************************)
(* The catalog under create, update and delete.  The status values passed  *)
(* here are one code and one string that is too long, and a book reference *)
(* may name no row; SpecStatus passes every code.                          *)
(***************************************************************************)
CatalogStatuses == {"o", "mo"}

CatalogBookRefs == RefInputs(book, next_id["book"])

Next ==
    \/ \E n \in LanguageNames : CreateLanguage(n)
    \/ \E id \in DOMAIN language : DeleteLanguage(id)
    \/ \E n \in GenreNames : CreateGenre(n)
    \/ \E id \in DOMAIN genre : DeleteGenre(id)
    \/ \E f \in FirstNames, l \in LastNames : CreateAuthor(f, l)
    \/ \E id \in DOMAIN author : DeleteAuthor(id)
    \/ \E row \in BookInputs : CreateBook(row)
    \/ \E id \in DOMAIN book, row \in BookInputs : UpdateBook(id, row)
    \/ \E id \in DOMAIN book, g \in DOMAIN genre : AddGenre(id, g)
    \/ \E id \in DOMAIN book, g \in DOMAIN genre : RemoveGenre(id, g)
    \/ \E id \in DOMAIN book : DeleteBook(id)
    \/ \E k \in 1 .. NumUuids, args \in InstanceInputs(CatalogBookRefs, CatalogStatuses) :
          CreateBookInstance(k, args)
    \/ \E id \in InstanceIds, fv \in InstanceAssignments(CatalogBookRefs, CatalogStatuses) :
          UpdateBookInstance(id, fv[1], fv[2])
    \/ \E id \in InstanceIds : DeleteBookInstance(id)
    \/ \E id \in InstanceIds : StrBookInstance(id)

Spec == Init /\ [][Next]_vars

(***************************************************************************)
(* Books and their instances, with every status code, and with the book    *)
(* references that are valid.                                              *)
(***************************************************************************)
BookRefs == {NULL} \cup {Some(b) : b \in DOMAIN book}

NextStatus ==
    \/ \E row \in BookInputs : CreateBook(row)
    \/ \E id \in DOMAIN book : DeleteBook(id)
    \/ \E k \in 1 .. NumUuids, args \in InstanceInputs(BookRefs, StatusInputs) :
          CreateBookInstance(k, args)
    \/ \E id \in InstanceIds, fv \in InstanceAssignments(BookRefs, StatusInputs) :
          UpdateBookInstance(id, fv[1], fv[2])
    \/ \E id \in InstanceIds : DeleteBookInstance(id)

SpecStatus == Init /\ [][NextStatus]_vars

(***************************************************************************)
(* display_genre on every catalog of one book and up to MaxDisplayGenres   *)
(* genres.                                                                 *)
(***************************************************************************)
DisplayGenreNames == {"Poetry", "Fantasy"}

InitDisplay ==
    /\ language = << >>
    /\ author = << >>
    /\ \E n \in 0 .. MaxDisplayGenres :
          /\ genre \in [1 .. n -> [name : DisplayGenreNames]]
          /\ book_genre \in SUBSET ({1} \X (1 .. n))
          /\ next_id = [t \in {"language", "genre", "author", "book"} |->
                          IF t = "genre" THEN n + 1 ELSE IF t = "book" THEN 2 ELSE 1]
          /\ created = n + 1
    /\ book \in [{1} -> [title : Titles, summary : Summaries, isbn : Isbns,
                         author : {NULL}, language : {NULL}]]
    /\ book_instance = {}
    /\ issued = {}
    /\ ret = Done

NextDisplay ==
    \E id \in DOMAIN book : \E order \in QueryOrders(BookGenres(id)) :
        DisplayGenre(id, order)

SpecDisplay == InitDisplay /\ [][NextDisplay]_vars

(***************************************************************************)
(* The default listing of every table of up to MaxListRows instances.      *)
(***************************************************************************)
InitListing ==
    /\ language = << >>
    /\ genre = << >>
    /\ author = << >>
    /\ book = << >>
    /\ book_genre = {}
    /\ next_id = [t \in {"language", "genre", "author", "book"} |-> 1]
    /\ \E n \in 0 .. MaxListRows :
          \E due \in [1 .. n -> {NULL} \cup {Some(d) : d \in 1 .. MaxListDate}] :
             /\ book_instance =
                   { [id |-> Uuid4(k), book |-> NULL, imprint |-> "Penguin 2003",
                      due_back |-> due[k], status |-> StatusDefault] : k \in 1 .. n }
             /\ issued = { Uuid4(k) : k \in 1 .. n }
             /\ created = n
    /\ ret = Done

NextListing ==
    \E nulls_first \in BOOLEAN : \E scan \in QueryOrders(book_instance) :
        ListInstances(scan, nulls_first)

SpecListing == InitListing /\ [][NextListing]_vars

(***************************************************************************)
(* The claims.                                                             *)
(***************************************************************************)
StatusCodes == {"m", "o", "a", "r"}

\* C1: the label of every BookInstance is "{book.title} ({id})": __str__
\* returns a value, also for an instance whose book reference is null.
InstanceLabelAlwaysReturned ==
    ret.op = "str" =>
        \E r \in book_instance :
            /\ ret.arg = Some(r.id)
            /\ ret.kind = "ok"
            /\ r.book # NULL =>
                  ret.val = book[Value(r.book)].title \o " (" \o UuidStr(r.id) \o ")"

DeleteAuthorKeepsBooks ==
    [][\A a \in DOMAIN author :
          DeleteAuthor(a) =>
             /\ DOMAIN author' = DOMAIN author \ {a}
             /\ \A x \in DOMAIN author' : author'[x] = author[x]
             /\ DOMAIN book' = DOMAIN book
             /\ \A b \in DOMAIN book :
                   /\ book'[b].author =
                         IF book[b].author = Some(a) THEN NULL ELSE book[b].author
                   /\ book'[b].title = book[b].title
                   /\ book'[b].summary = book[b].summary
                   /\ book'[b].isbn = book[b].isbn
                   /\ book'[b].language = book[b].language
             /\ book_genre' = book_genre
             /\ UNCHANGED <<language, genre, book_instance>>]_vars

\* an author was deleted and a book is left without author, with its
\* language or its genre
AuthorDeletedBookKept ==
    /\ ret.op = "delete_author"
    /\ \E b \in DOMAIN book :
          /\ book[b].author = NULL
          /\ book[b].language # NULL \/ BookGenres(b) # {}

\* C4: deleting a Book removes only the Book; every BookInstance that
\* referenced it stays, with book null and its id, imprint, due_back and
\* status unchanged.
DeleteBookKeepsInstances ==
    [][\A b \in DOMAIN book :
          DeleteBook(b) =>
             /\ DOMAIN book' = DOMAIN book \ {b}
             /\ \A x \in DOMAIN book' : book'[x] = book[x]
             /\ Cardinality(book_instance') = Cardinality(book_instance)
             /\ \A r \in book_instance :
                   \E q \in book_instance' :
                      /\ q.id = r.id
                      /\ q.imprint = r.imprint
                      /\ q.due_back = r.due_back
                      /\ q.status = r.status
                      /\ q.book = IF r.book = Some(b) THEN NULL ELSE r.book
             /\ UNCHANGED <<language, genre, author>>]_vars

\* a book was deleted and its two instances are left, one of them on loan
\* with a due date
BookDeletedInstancesKept ==
    /\ ret.op = "delete_book"
    /\ Cardinality(book_instance) = 2
    /\ \A r \in book_instance : r.book = NULL
    /\ \E r \in book_instance : r.due_back # NULL /\ r.status = "o"

\* C5: display_genre returns the names of the first min(3, n) genres in
\* query order joined by ", ", the empty string when n = 0, and changes no
\* catalog state.  The query order of a step is the one it leaves in ret.rows.
DisplayGenreFirstThree ==
    [][\A id \in DOMAIN book :
          DisplayGenre(id, ret'.rows) =>
             LET order == ret'.rows
                 n == Len(order)
                 name(i) == genre[order[i]].name
             IN /\ UNCHANGED catalog
                /\ ret'.kind = "ok"
                /\ ret'.val =
                      CASE n = 0 -> ""
                        [] n = 1 -> name(1)
                        [] n = 2 -> name(1) \o ", " \o name(2)
                        [] OTHER -> name(1) \o ", " \o name(2) \o ", " \o name(3)]_vars

\* a book of four genres displayed as its first three
FourGenresThreeDisplayed ==
    /\ ret.op = "display_genre"
    /\ Len(ret.rows) = 4
    /\ ret.val = "Poetry, Fantasy, Poetry"
    /\ genre[ret.rows[4]].name = "Fantasy"

\* C6, as claimed: an instance created without an explicit identifier
\* receives an identifier no instance ever had, deleted ones included.
IdentifiersNeverReused ==
    [][\A k \in 1 .. NumUuids :
          (Uuid4(k) \notin InstanceIds /\ Uuid4(k) \in InstanceIds')
             => Uuid4(k) \notin issued]_vars

\* C6, amended: no two live instances share an id.
LiveIdentifiersDistinct ==
    \A r1, r2 \in book_instance : r1.id = r2.id => r1 = r2

\* two live instances, and a create that drew the id of one of them refused
CollisionRefused ==
    /\ Cardinality(book_instance) = 2
    /\ ret.kind = "IntegrityError"

\* C7, as claimed: the default listing is ascending by due_back with every
\* instance without due date before every instance with one.
ListingUnsetFirst ==
    ret.op = "list" =>
        \A i, j \in 1 .. Len(ret.rows) :
            /\ (i < j /\ ret.rows[i].due_back # NULL /\ ret.rows[j].due_back # NULL)
                  => Value(ret.rows[i].due_back) <= Value(ret.rows[j].due_back)
            /\ (ret.rows[i].due_back = NULL /\ ret.rows[j].due_back # NULL) => i < j

\* C7, amended: the default listing holds every instance once, ascending by
\* due_back among those with a due date; those without are all before them
\* on a store that orders NULL first and all after them on a store that
\* orders NULL last.
ListingSortedByDueBack ==
    ret.op = "list" =>
        /\ Len(ret.rows) = Cardinality(book_instance)
        /\ { ret.rows[i] : i \in 1 .. Len(ret.rows) } = book_instance
        /\ \A i, j \in 1 .. Len(ret.rows) :
              /\ (i < j /\ ret.rows[i].due_back # NULL /\ ret.rows[j].due_back # NULL)
                    => Value(ret.rows[i].due_back) <= Value(ret.rows[j].due_back)
              /\ (ret.rows[i].due_back = NULL /\ ret.rows[j].due_back # NULL)
                    => IF ret.arg = Some(TRUE) THEN i < j ELSE j < i

\* three instances listed on a store that orders NULL last
ListedNullsLast ==
    /\ ret.op = "list"
    /\ ret.arg = Some(FALSE)
    /\ Len(ret.rows) = 3
    /\ ret.rows[1].due_back = Some(1)
    /\ ret.rows[2].due_back = Some(2)
    /\ ret.rows[3].due_back = NULL

\* C8: creating a BookInstance without status yields an instance of status
\* 'm', whatever the other fields and the prior state.
CreateWithoutStatusIsMaintenance ==
    [][\A k \in 1 .. NumUuids : \A r \in book_instance' \ book_instance :
          CreateBookInstance(k, [book |-> r.book, imprint |-> r.imprint,
                                 due_back |-> r.due_back, status |-> NULL])
             => r.id = Uuid4(k) /\ r.status = "m"]_vars

\* an instance in maintenance with a book and a due date, beside another
\* that is available
MaintenanceInstanceCreated ==
    /\ \E r \in book_instance : r.status = "m" /\ r.book # NULL /\ r.due_back # NULL
    /\ \E r \in book_instance : r.status = "a"
    /\ ret = Done

ReferentialIntegrity ==
    /\ \A b \in DOMAIN book :
          /\ \A a \in book[b].author : a \in DOMAIN author
          /\ \A l \in book[b].language : l \in DOMAIN language
    /\ \A r \in book_instance : \A b \in r.book : b \in DOMAIN book
    /\ \A p \in book_genre : p[1] \in DOMAIN book /\ p[2] \in DOMAIN genre

\* a genre was deleted after the author or the language, and the book is left
GenreDeletedBookKept ==
    /\ ret.op = "delete_genre"
    /\ DOMAIN book # {}
    /\ \/ author = << >> /\ next_id["author"] > 1
       \/ language = << >> /\ next_id["language"] > 1

====
